---- MODULE Spec2Model ----
(***************************************************************************)
(* Model of the artifact cache of the nitrate / cancer spatial analysis    *)
(* backend: backend/src/pipeline.py (ensure_idw_outputs, run_table,        *)
(* run_regression and the path helpers) together with the output writes of *)
(* the stage scripts tract_nitrate_table.py and regression_preview.py.     *)
(*                                                                         *)
(* One cache key (k, cell, knn) is modelled by the cache specification     *)
(* Spec: its files on disk, its lock file and the callers working on it.   *)
(* SpecSame is the same cache with every caller repeating one call of      *)
(* ensure_idw_outputs, SpecSameFair adds fair scheduling.  The file-name   *)
(* encoding of the key is modelled by SpecKey.                             *)
(*                                                                         *)
(* The functions of the stage scripts have specifications of their own:    *)
(* SpecGuard (parameter checks of the entry points and of idw_preview),    *)
(* SpecIdw (idw_block), SpecGrid (build_grid), SpecRows (the row-block     *)
(* loop of idw_preview.main) and SpecZonal (tract_nitrate_table.main).     *)
(***************************************************************************)
EXTENDS Integers, Sequences, FiniteSets, TLC

VARIABLES
    pc,          \* pc[p]: position of caller p in its call
    req,         \* req[p]: the call of p (entry point and arguments)
    lockHolder,  \* holder of the FileLock of the key, NoProc when free
    files,       \* files[f]: state of the final path f (meta, csv, reg)
    png,         \* png[m]: state of the final preview path for max_dim m
    tmp,         \* tmp[m]: state of the ".tmp" sibling of png[m]
    tifCached,   \* a raster exists at cache/idw/<key>.tif
    passes,      \* callers that started a generation pass (side-effect log)
    err,         \* err[p]: what a failed caller raised
    pubAtCall,   \* pubAtCall[p]: the entry point p called when all that it
                 \* requests was published at the call, else "no"
    theCall,     \* the call every caller repeats (SpecSame), else NoCall
    tupA, tupB,  \* two parameter tuples (k, cell, knn)
    encA, encB,  \* their encoded file names, <<>> before encoding
    vreq,        \* a request with unchecked parameters: entry point, k,
                 \* cell, knn
    vpc,         \* its position
    vio,         \* what it has created or started so far
    verr,        \* what it surfaced to its caller
    wells,       \* idw_block: the samples, a sequence of (x, y, v)
    qpt,         \* the query point
    knnArg,      \* the knn it is called with
    kpow,        \* the decay exponent
    nbrs,        \* the neighbour indices the tree query returned
    pred,        \* the prediction, or the exception raised
    bnds,        \* build_grid: the bounds (minx, miny, maxx, maxy)
    gcell,       \* the cell size
    grid,        \* what build_grid returned
    tracts,      \* zonal table: the region polygons, in input order
    nitrate,     \* the raster band, one value per cell
    zones,       \* the rasterized region ids, 0 where no region
    table,       \* the rows of the region table
    nrows,       \* row-block loop: the row count of the grid
    block_rows,  \* --block-rows
    row0,        \* the first row of the next block
    dst,         \* dst[r]: the writes of row r, each the row computed
    lpc          \* the position of the loop

vars == <<pc, req, lockHolder, files, png, tmp, tifCached, passes, err,
          pubAtCall, theCall, tupA, tupB, encA, encB, vreq, vpc, vio, verr,
          wells, qpt, knnArg, kpow, nbrs, pred, bnds, gcell, grid,
          tracts, nitrate, zones, table, nrows, block_rows, row0, dst,
          lpc>>

cacheVars == <<pc, req, lockHolder, files, png, tmp, tifCached, passes, err,
               pubAtCall, theCall>>

keyVars == <<tupA, tupB, encA, encB>>

guardVars == <<vreq, vpc, vio, verr>>

idwVars == <<wells, qpt, knnArg, kpow, nbrs, pred>>

gridVars == <<bnds, gcell, grid>>

zonalVars == <<tracts, nitrate, zones, table>>

rowVars == <<nrows, block_rows, row0, dst, lpc>>

\* the variables of the specifications of single functions
sideVars == <<guardVars, idwVars, gridVars, zonalVars, rowVars>>

\* what no step of a caller changes
fixedVars == <<theCall, tupA, tupB, encA, encB, sideVars>>

(***************************************************************************)
(* Bounds                                                                  *)
(***************************************************************************)
NumProcs == 2

Procs == 1..NumProcs

NoProc == 0

\* max_dim: int = 1400
DefaultMaxDim == 1400

\* the preview sizes requested in the model
MaxDims == {800, DefaultMaxDim}

(***************************************************************************)
(* Files                                                                   *)
(***************************************************************************)
FileIds == {"meta", "csv", "reg"}

Absent == [st |-> "absent", by |-> NoProc]

\* Path.exists()
Exists(f) == f.st # "absent"

\* not exists() or stat().st_size == 0
MissingOrEmpty(f) == f.st \in {"absent", "empty"}

\* open(path, "w"): the file exists and is empty
Truncated(p) == [st |-> "empty", by |-> p]

\* a write() of a writer p that has the file open: the file is complete
\* only when the writer that truncated it last has closed it
Written(f, p) ==
    IF f.by = p THEN [st |-> "trunc", by |-> p]
    ELSE IF f.st = "empty" THEN [st |-> "trunc", by |-> f.by]
    ELSE f

\* close() of writer p
Closed(f, p) == IF f.by = p THEN [st |-> "full", by |-> p] ELSE f

(***************************************************************************)
(* Calls                                                                   *)
(***************************************************************************)
EnsureCalls ==
    { [op |-> "ensure", want_png |-> wp, want_table |-> wt, want_reg |-> wr,
       max_dim |-> m] :
        wp \in BOOLEAN, wt \in BOOLEAN, wr \in BOOLEAN, m \in MaxDims }

TableCall == [op |-> "run_table", want_png |-> FALSE, want_table |-> TRUE,
              want_reg |-> FALSE, max_dim |-> DefaultMaxDim]

RegCall == [op |-> "run_regression", want_png |-> FALSE, want_table |-> FALSE,
            want_reg |-> TRUE, max_dim |-> DefaultMaxDim]

\* a call that leaves max_dim to its default when no preview is wanted
Calls ==
    { r \in EnsureCalls : r.want_png \/ r.max_dim = DefaultMaxDim }
        \cup {TableCall, RegCall}

NoCall == [op |-> "none", want_png |-> FALSE, want_table |-> FALSE,
           want_reg |-> FALSE, max_dim |-> DefaultMaxDim]

(***************************************************************************)
(* ensure_idw_outputs, run_table, run_regression                           *)
(***************************************************************************)
\* FastPath that also asks for the raster at cache/idw, which
\* ensure_idw_outputs never writes
FastPathNeedsTif(r) ==
    /\ (~r.want_png \/ Exists(png[r.max_dim]))
    /\ (~r.want_table \/ Exists(files["csv"]))
    /\ (~r.want_reg \/ Exists(files["reg"]))
    /\ Exists(files["meta"])
    /\ tifCached

\* the existence test of ensure_idw_outputs, taken with the lock held
FastPath(r) ==
    /\ (~r.want_png \/ Exists(png[r.max_dim]))
    /\ (~r.want_table \/ Exists(files["csv"]))
    /\ (~r.want_reg \/ Exists(files["reg"]))
    /\ Exists(files["meta"])

\* the early return of run_table / run_regression: out.exists()
OutExists(r) ==
    IF r.op = "run_table" THEN Exists(files["csv"]) ELSE Exists(files["reg"])

\* `with lock:` leaves the lock on return and on exception alike
Released(p) == IF lockHolder = p THEN NoProc ELSE lockHolder

\* positions in which a stage or a write of the caller is running
StagePcs == {"idw", "meta", "meta_w", "table_run", "table_w", "reg_run",
             "reg_w", "png_w", "png_replace"}

\* the final-path file that a caller at a write position has open
OpenFile(q) == CASE q = "meta_w" -> "meta"
                 [] q = "table_w" -> "csv"
                 [] q = "reg_w" -> "reg"

\* metadata and everything the call asks for is completely published
Published(r) ==
    IF r.op = "ensure" THEN
        /\ files["meta"].st = "full"
        /\ (r.want_png => png[r.max_dim].st = "full")
        /\ (r.want_table => files["csv"].st = "full")
        /\ (r.want_reg => files["reg"].st = "full")
    ELSE IF r.op = "run_table" THEN files["csv"].st = "full"
    ELSE files["reg"].st = "full"

\* the call of p is over: it returned (how = "done") or raised ("failed")
Leave(p, how, e) ==
    /\ pc' = [pc EXCEPT ![p] = how]
    /\ err' = [err EXCEPT ![p] = e]
    /\ req' = [req EXCEPT ![p] = NoCall]
    /\ lockHolder' = Released(p)

\* the call of p goes on at position q
Goto(p, q) ==
    /\ pc' = [pc EXCEPT ![p] = q]
    /\ UNCHANGED <<err, req, lockHolder>>

\* a caller enters one of the three entry points; callers are numbered in
\* the order of their arrival
Call(p, r) ==
    /\ pc[p] = "idle"
    /\ UNCHANGED fixedVars
    /\ \A q \in Procs : q < p => pc[q] # "idle"
    /\ pubAtCall' = [pubAtCall EXCEPT ![p] =
                        IF Published(r) THEN r.op ELSE "no"]
    /\ IF r.op # "ensure" /\ OutExists(r)
       THEN Leave(p, "done", "none")
       ELSE /\ req' = [req EXCEPT ![p] = r]
            /\ pc' = [pc EXCEPT ![p] =
                        IF r.op = "ensure" THEN "lock"
                        ELSE IF r.op = "run_table" THEN "table_run"
                        ELSE "reg_run"]
            /\ UNCHANGED <<err, lockHolder>>
    /\ UNCHANGED <<files, png, tmp, tifCached, passes>>

\* Acquire without the wait for the holder: a lock that excludes nobody
AcquireUnlocked(p) ==
    /\ pc[p] = "lock"
    /\ UNCHANGED fixedVars
    /\ lockHolder' = p
    /\ pc' = [pc EXCEPT ![p] = "check"]
    /\ UNCHANGED <<req, files, png, tmp, tifCached, passes, err, pubAtCall>>

\* FileLock.acquire(): blocks while another caller holds the lock
Acquire(p) ==
    /\ pc[p] = "lock"
    /\ UNCHANGED fixedVars
    /\ lockHolder = NoProc
    /\ lockHolder' = p
    /\ pc' = [pc EXCEPT ![p] = "check"]
    /\ UNCHANGED <<req, files, png, tmp, tifCached, passes, err, pubAtCall>>

\* the existence test under the lock: return, or start a generation pass
\* with the IDW subprocess
Check(p) ==
    /\ pc[p] = "check"
    /\ UNCHANGED fixedVars
    /\ IF FastPath(req[p])
       THEN /\ Leave(p, "done", "none")
            /\ UNCHANGED passes
       ELSE /\ Goto(p, "idw")
            /\ passes' = passes \cup {p}
    /\ UNCHANGED <<files, png, tmp, tifCached, pubAtCall>>

\* the IDW subprocess wrote the raster into the temporary directory
IdwDone(p) ==
    /\ pc[p] = "idw"
    /\ UNCHANGED fixedVars
    /\ Goto(p, "meta")
    /\ UNCHANGED <<files, png, tmp, tifCached, passes, pubAtCall>>

\* StageFail with the lock kept: an acquire() with no release on the
\* exception path
StageFailKeepsLock(p) ==
    /\ pc[p] \in StagePcs
    /\ UNCHANGED fixedVars
    /\ pc' = [pc EXCEPT ![p] = "failed"]
    /\ err' = [err EXCEPT ![p] = "stage"]
    /\ req' = [req EXCEPT ![p] = NoCall]
    /\ UNCHANGED <<lockHolder, files, png, tmp, tifCached, passes, pubAtCall>>

\* a subprocess exits non-zero, a call raises or the process dies: the
\* exception leaves the `with` blocks, what is on disk stays as it is
StageFail(p) ==
    /\ pc[p] \in StagePcs
    /\ UNCHANGED fixedVars
    /\ Leave(p, "failed", "stage")
    /\ UNCHANGED <<files, png, tmp, tifCached, passes, pubAtCall>>

\* meta_out.write_text(...): open for writing
MetaOpen(p) ==
    /\ pc[p] = "meta"
    /\ UNCHANGED fixedVars
    /\ files' = [files EXCEPT !["meta"] = Truncated(p)]
    /\ Goto(p, "meta_w")
    /\ UNCHANGED <<png, tmp, tifCached, passes, pubAtCall>>

\* part of the data of an open final-path file reaches the disk
WriteProgress(p) ==
    /\ pc[p] \in {"meta_w", "table_w", "reg_w"}
    /\ UNCHANGED fixedVars
    /\ LET f == OpenFile(pc[p]) IN
        /\ Written(files[f], p) # files[f]
        /\ files' = [files EXCEPT ![f] = Written(files[f], p)]
    /\ UNCHANGED <<pc, req, lockHolder, png, tmp, tifCached, passes, err,
                   pubAtCall>>

\* meta_out.write_text(...) returns
MetaClose(p) ==
    /\ pc[p] = "meta_w"
    /\ UNCHANGED fixedVars
    /\ files' = [files EXCEPT !["meta"] = Closed(files["meta"], p)]
    /\ Goto(p, "table")
    /\ UNCHANGED <<png, tmp, tifCached, passes, pubAtCall>>

\* if want_table and (not csv_out.exists() or csv_out.stat().st_size == 0)
TableDecide(p) ==
    /\ pc[p] = "table"
    /\ UNCHANGED fixedVars
    /\ Goto(p, IF req[p].want_table /\ MissingOrEmpty(files["csv"])
               THEN "table_run" ELSE "reg")
    /\ UNCHANGED <<files, png, tmp, tifCached, passes, pubAtCall>>

\* the raster the table script reads: --raster tmp_tif from
\* ensure_idw_outputs, the cached raster of the key from run_table
RasterFound(r) == r.op = "ensure" \/ tifCached

\* tract_nitrate_table.py: raise FileNotFoundError(Raster not found)
TableRasterMissing(p) ==
    /\ pc[p] = "table_run"
    /\ UNCHANGED fixedVars
    /\ ~RasterFound(req[p])
    /\ Leave(p, "failed", "stage")
    /\ UNCHANGED <<files, png, tmp, tifCached, passes, pubAtCall>>

\* tract_nitrate_table.py: to_csv(out_csv) opens the final path
TableOpen(p) ==
    /\ pc[p] = "table_run"
    /\ UNCHANGED fixedVars
    /\ RasterFound(req[p])
    /\ files' = [files EXCEPT !["csv"] = Truncated(p)]
    /\ Goto(p, "table_w")
    /\ UNCHANGED <<png, tmp, tifCached, passes, pubAtCall>>

\* the table script exits 0; run_table returns out, which exists
TableClose(p) ==
    /\ pc[p] = "table_w"
    /\ UNCHANGED fixedVars
    /\ files' = [files EXCEPT !["csv"] = Closed(files["csv"], p)]
    /\ IF req[p].op = "ensure" THEN Goto(p, "reg")
       ELSE Leave(p, "done", "none")
    /\ UNCHANGED <<png, tmp, tifCached, passes, pubAtCall>>

\* RegDecide without the test of csv_out.exists()
RegDecideNoCsvTest(p) ==
    /\ pc[p] = "reg"
    /\ UNCHANGED fixedVars
    /\ IF req[p].want_reg /\ MissingOrEmpty(files["reg"])
       THEN Goto(p, "reg_run")
       ELSE Goto(p, "png")
    /\ UNCHANGED <<files, png, tmp, tifCached, passes, pubAtCall>>

\* if want_reg and (not reg_out.exists() or reg_out.stat().st_size == 0):
\*     if not csv_out.exists(): raise FileNotFoundError
RegDecide(p) ==
    /\ pc[p] = "reg"
    /\ UNCHANGED fixedVars
    /\ IF req[p].want_reg /\ MissingOrEmpty(files["reg"])
       THEN IF ~Exists(files["csv"])
            THEN Leave(p, "failed", "missing_csv")
            ELSE Goto(p, "reg_run")
       ELSE Goto(p, "png")
    /\ UNCHANGED <<files, png, tmp, tifCached, passes, pubAtCall>>

\* what pd.read_csv can parse: a file with at least some data in it
CsvReadable(f) == f.st \in {"trunc", "full"}

\* regression_preview.py: raise FileNotFoundError(CSV not found), or
\* pd.read_csv raises on a file of size 0
RegCsvMissing(p) ==
    /\ pc[p] = "reg_run"
    /\ UNCHANGED fixedVars
    /\ ~CsvReadable(files["csv"])
    /\ Leave(p, "failed", "stage")
    /\ UNCHANGED <<files, png, tmp, tifCached, passes, pubAtCall>>

\* regression_preview.py: out_json.write_text(...) opens the final path
RegOpen(p) ==
    /\ pc[p] = "reg_run"
    /\ UNCHANGED fixedVars
    /\ CsvReadable(files["csv"])
    /\ files' = [files EXCEPT !["reg"] = Truncated(p)]
    /\ Goto(p, "reg_w")
    /\ UNCHANGED <<png, tmp, tifCached, passes, pubAtCall>>

\* the regression script exits 0; run_regression returns out
RegClose(p) ==
    /\ pc[p] = "reg_w"
    /\ UNCHANGED fixedVars
    /\ files' = [files EXCEPT !["reg"] = Closed(files["reg"], p)]
    /\ IF req[p].op = "ensure" THEN Goto(p, "png")
       ELSE Leave(p, "done", "none")
    /\ UNCHANGED <<png, tmp, tifCached, passes, pubAtCall>>

\* if want_png and (not png_out.exists() or png_out.stat().st_size == 0);
\* otherwise the pass is over and the lock is released
PngDecide(p) ==
    /\ pc[p] = "png"
    /\ UNCHANGED fixedVars
    /\ IF req[p].want_png /\ MissingOrEmpty(png[req[p].max_dim])
       THEN Goto(p, "png_w")
       ELSE Leave(p, "done", "none")
    /\ UNCHANGED <<files, png, tmp, tifCached, passes, pubAtCall>>

\* img.save(tmp, ...): the data goes to the .tmp sibling of the preview
PngSave(p) ==
    /\ pc[p] = "png_w"
    /\ UNCHANGED fixedVars
    /\ tmp[req[p].max_dim] # "partial"
    /\ tmp' = [tmp EXCEPT ![req[p].max_dim] = "partial"]
    /\ UNCHANGED <<pc, req, lockHolder, files, png, tifCached, passes, err,
                   pubAtCall>>

\* img.save returns
PngSaved(p) ==
    /\ pc[p] = "png_w"
    /\ UNCHANGED fixedVars
    /\ tmp' = [tmp EXCEPT ![req[p].max_dim] = "full"]
    /\ Goto(p, "png_replace")
    /\ UNCHANGED <<files, png, tifCached, passes, pubAtCall>>

\* os.replace(tmp, png_out), the end of the pass
PngReplace(p) ==
    /\ pc[p] = "png_replace"
    /\ UNCHANGED fixedVars
    /\ png' = [png EXCEPT ![req[p].max_dim] = [st |-> "full", by |-> p]]
    /\ tmp' = [tmp EXCEPT ![req[p].max_dim] = "absent"]
    /\ Leave(p, "done", "none")
    /\ UNCHANGED <<files, tifCached, passes, pubAtCall>>

(***************************************************************************)
(* The cache key in file names: the path helpers of pipeline.py.  A float  *)
(* argument is held in tenths (k = 2.5 is 25), a name as the sequence of   *)
(* its characters after the name of its directory.                         *)
(***************************************************************************)
Digit(d) == <<"0", "1", "2", "3", "4", "5", "6", "7", "8", "9">>[d + 1]

RECURSIVE IntStr(_)
\* str(n) of an int n >= 0, as in f"{knn}" and f"{int(cell)}"
IntStr(n) ==
    IF n < 10 THEN <<Digit(n)>> ELSE IntStr(n \div 10) \o <<Digit(n % 10)>>

\* str(x) of a float x > 0 with one decimal: "2.0", "2.5", "500.5"
FloatStr(t) == IntStr(t \div 10) \o <<".">> \o <<Digit(t % 10)>>

\* s.replace(a, b) for single characters
Replace(s, a, b) == [i \in 1..Len(s) |-> IF s[i] = a THEN b ELSE s[i]]

\* _k_tag(k): str(k).replace(".", "p")
k_tag(k) == Replace(FloatStr(k), ".", "p")

\* int(cell): truncation
IntOf(t) == t \div 10

\* f"k{_k_tag(k)}_cs{int(cell)}m_knn{knn}"
KeyStem(k, cell, knn) ==
    <<"k">> \o k_tag(k) \o <<"_", "c", "s">> \o IntStr(IntOf(cell))
        \o <<"m", "_", "k", "n", "n">> \o IntStr(knn)

idw_png_path(k, cell, knn, max_dim) ==
    <<"cache/png/">> \o <<"i", "d", "w", "_">> \o KeyStem(k, cell, knn)
        \o <<"_", "m", "a", "x">> \o IntStr(max_dim) \o <<".", "p", "n", "g">>

idw_meta_path(k, cell, knn) ==
    <<"cache/meta/">> \o <<"i", "d", "w", "_">> \o KeyStem(k, cell, knn)
        \o <<".", "j", "s", "o", "n">>

bundle_lock_path(k, cell, knn) ==
    <<"cache/locks/">> \o <<"i", "d", "w", "_">> \o KeyStem(k, cell, knn)
        \o <<".", "l", "o", "c", "k">>

tract_table_csv_path(k, cell, knn) ==
    <<"cache/tables/">>
        \o <<"t", "r", "a", "c", "t", "_", "m", "e", "a", "n", "_">>
        \o <<"n", "i", "t", "r", "a", "t", "e", "_">>
        \o KeyStem(k, cell, knn) \o <<".", "c", "s", "v">>

regression_json_path(k, cell, knn) ==
    <<"cache/results/">>
        \o <<"r", "e", "g", "r", "e", "s", "s", "i", "o", "n", "_">>
        \o KeyStem(k, cell, knn) \o <<".", "j", "s", "o", "n">>

\* the paths ensure_idw_outputs works on for a parameter tuple
PathNames(t) ==
    [png |-> idw_png_path(t.k, t.cell, t.knn, DefaultMaxDim),
     meta |-> idw_meta_path(t.k, t.cell, t.knn),
     lock |-> bundle_lock_path(t.k, t.cell, t.knn),
     csv |-> tract_table_csv_path(t.k, t.cell, t.knn),
     reg |-> regression_json_path(t.k, t.cell, t.knn)]

PathKinds == {"png", "meta", "lock", "csv", "reg"}

NoNames == [f \in PathKinds |-> <<>>]

\* decay exponents 1.1, 2.0, 2.5; cell sizes 0.5, 250.0, 500.0, 500.5 m
KTenths == {11, 20, 25}

CellTenths == {5, 2500, 5000, 5005}

Knns == {3, 32}

\* the parameter domain: k > 1, cell > 0, knn >= 1
Params ==
    { t \in [k : KTenths, cell : CellTenths, knn : Knns] :
        t.k > 10 /\ t.cell > 0 /\ t.knn >= 1 }

EncodeA ==
    /\ encA = NoNames
    /\ encA' = PathNames(tupA)
    /\ UNCHANGED <<tupA, tupB, encB, cacheVars, sideVars>>

EncodeB ==
    /\ encB = NoNames
    /\ encB' = PathNames(tupB)
    /\ UNCHANGED <<tupA, tupB, encA, cacheVars, sideVars>>

(***************************************************************************)
(* Parameter checks: app.py handlers, ensure_idw_outputs, idw_preview.main *)
(***************************************************************************)
\* requested k in tenths, cell in tenths of a metre, knn: valid and invalid
AnyK == {5, 10, 11, 20}

AnyCell == {0 - 5000, 0, 5000}

AnyKnn == {0, 1, 32}

\* the entry points: ensure_idw_outputs called directly (warm_idw_cache.py)
\* and the check at the head of the HTTP handlers
Entries == {"ensure", "api"}

NoReq == [entry |-> "none", k |-> 20, cell |-> 5000, knn |-> 32]

\* idw_preview.main: k <= 1.0, cell <= 0 and knn < 1 raise ValueError
ValidParams(r) == r.k > 10 /\ r.cell > 0 /\ r.knn >= 1

\* the handlers test k only
HandlerAccepts(r) == r.k > 10

\* if k <= 1: return jsonify({"error": "k must be > 1"}), 400; a tuple
\* that passes goes on to the pipeline calls of the handler
HandlerCheck ==
    /\ vreq.entry = "api"
    /\ vpc = "start"
    /\ IF HandlerAccepts(vreq)
       THEN vpc' = "passed_on" /\ verr' = "none"
       ELSE vpc' = "returned" /\ verr' = "http_400"
    /\ UNCHANGED <<vreq, vio, cacheVars, keyVars,
                   idwVars, gridVars, zonalVars, rowVars>>

\* CACHE_PNG.mkdir(...); CACHE_META.mkdir(...)
EnsureMkdir ==
    /\ vreq.entry = "ensure"
    /\ vpc = "start"
    /\ vio' = vio \cup {"cache_dirs"}
    /\ vpc' = "dirs"
    /\ UNCHANGED <<vreq, verr, cacheVars, keyVars,
                   idwVars, gridVars, zonalVars, rowVars>>

\* FileLock(str(bundle_lock_path(...))) and `with lock:`: the locks
\* directory is made by bundle_lock_path, the lock file by the acquire
EnsureLock ==
    /\ vpc = "dirs"
    /\ vio' = vio \cup {"locks_dir", "lock_file"}
    /\ vpc' = "locked"
    /\ UNCHANGED <<vreq, verr, cacheVars, keyVars,
                   idwVars, gridVars, zonalVars, rowVars>>

\* no artifact of the key exists: the temporary directory is made and the
\* IDW subprocess is started with the parameters as given
EnsureStartIdw ==
    /\ vpc = "locked"
    /\ vio' = vio \cup {"tmp_dir", "idw_process"}
    /\ vpc' = "idw"
    /\ UNCHANGED <<vreq, verr, cacheVars, keyVars,
                   idwVars, gridVars, zonalVars, rowVars>>

\* idw_preview.main tests the parameters first: a ValueError ends the
\* subprocess, check_call raises CalledProcessError out of
\* ensure_idw_outputs; valid parameters let the stage go on
IdwValidate ==
    /\ vpc = "idw"
    /\ IF ValidParams(vreq)
       THEN vpc' = "generating" /\ verr' = "none"
       ELSE vpc' = "raised" /\ verr' = "CalledProcessError"
    /\ UNCHANGED <<vreq, vio, cacheVars, keyVars,
                   idwVars, gridVars, zonalVars, rowVars>>

\* no request with unchecked parameters is modelled
GuardIdle ==
    /\ vreq = NoReq
    /\ vpc = "none"
    /\ vio = {}
    /\ verr = "none"

(***************************************************************************)
(* idw_preview.idw_block on one query point                                *)
(***************************************************************************)
MaxWells == 3

MaxKnnArg == 4

WellCoordMax == 1

Coords == 0..WellCoordMax

\* nitrate values of the samples
WellVals == {10, 20}

\* decay exponents, even so that d^k is an integer of the squared distance
Powers == {2, 4}

WellSets ==
    UNION { [1..n -> [x : Coords, y : Coords, v : WellVals]] :
                n \in 1..MaxWells }

NoPred == [kind |-> "none", num |-> 0, den |-> 1]

\* the square of the distance of sample i to the query point
Dist2(i) ==
    (wells[i].x - qpt.x) * (wells[i].x - qpt.x)
        + (wells[i].y - qpt.y) * (wells[i].y - qpt.y)

\* tree.query(xy_block, k=knn): the min(knn, N) nearest samples by
\* increasing distance, samples at equal distance in an order the tree
\* chooses; the places of missing neighbours hold the index N (N + 1 when
\* counting from 1) at distance inf
TreeQuery ==
    LET N == Len(wells)
        m == IF knnArg < N THEN knnArg ELSE N
    IN  { o \in [1..knnArg -> 1..(N + 1)] :
            /\ \A i \in 1..knnArg : (o[i] <= N) <=> (i <= m)
            /\ \A i, j \in 1..m : i < j =>
                  /\ o[i] # o[j]
                  /\ Dist2(o[i]) <= Dist2(o[j])
            /\ \A w \in 1..N :
                  (\A i \in 1..m : o[i] # w) =>
                      \A i \in 1..m : Dist2(o[i]) <= Dist2(w) }

\* np.power(d, power) for a neighbour at distance d > 0
PowDist(o, i) == Dist2(o[i]) ^ (kpow \div 2)

RECURSIVE ProdOthers(_, _, _)
\* the product of PowDist over the first n neighbours but neighbour i
ProdOthers(o, i, n) ==
    IF n = 0 THEN 1
    ELSE (IF n = i THEN 1 ELSE PowDist(o, n)) * ProdOthers(o, i, n - 1)

RECURSIVE SumNum(_, _)
\* np.sum(w * v), the weights 1 / d^k over their common denominator
SumNum(o, n) ==
    IF n = 0 THEN 0
    ELSE wells[o[n]].v * ProdOthers(o, n, Len(o)) + SumNum(o, n - 1)

RECURSIVE SumDen(_, _)
\* np.sum(w) over the same denominator
SumDen(o, n) ==
    IF n = 0 THEN 0 ELSE ProdOthers(o, n, Len(o)) + SumDen(o, n - 1)

\* hit[row].argmax(): the first column of the neighbour list at distance 0
FirstHitCol(o) ==
    CHOOSE c \in 1..Len(o) :
        /\ Dist2(o[c]) = 0
        /\ \A b \in 1..(c - 1) : Dist2(o[b]) # 0

\* the rest of idw_block for the neighbour list o: values[idx] raises
\* IndexError on the index N; a row with a hit takes the value of its first
\* hit; any other row is num / den
Predict(o) ==
    IF \E i \in 1..Len(o) : o[i] > Len(wells)
    THEN [kind |-> "IndexError", num |-> 0, den |-> 1]
    ELSE IF \E i \in 1..Len(o) : Dist2(o[i]) = 0
    THEN [kind |-> "hit", num |-> wells[o[FirstHitCol(o)]].v, den |-> 1]
    ELSE [kind |-> "blend", num |-> SumNum(o, Len(o)),
          den |-> SumDen(o, Len(o))]

idw_block ==
    /\ pred = NoPred
    /\ wells # <<>>
    /\ \E o \in TreeQuery :
        /\ nbrs' = o
        /\ pred' = Predict(o)
    /\ UNCHANGED <<wells, qpt, knnArg, kpow, cacheVars, keyVars, guardVars,
                   gridVars, zonalVars, rowVars>>

IdwIdle ==
    /\ wells = <<>>
    /\ qpt = [x |-> 0, y |-> 0]
    /\ knnArg = 1
    /\ kpow = 2
    /\ nbrs = <<>>
    /\ pred = NoPred

(***************************************************************************)
(* idw_preview.build_grid, in binary floating point of Prec significant    *)
(* bits with round-to-nearest-even (binary64 has 53)                       *)
(***************************************************************************)
Prec == 3

MaxCoord == 16

MaxCell == 6

\* 2^QuotShift scales a quotient so that its mantissa is an integer
QuotShift == 2 * Prec + 4

\* the exponent e >= 0 with 2^(Prec-1) * d * 2^e <= n < 2^Prec * d * 2^e,
\* 0 when n / d has less than Prec bits before the point
Shift(n, d) ==
    CHOOSE e \in 0..(QuotShift + Prec) :
        /\ n < (2 ^ (Prec + e)) * d
        /\ (e = 0 \/ n >= (2 ^ (Prec + e - 1)) * d)

\* round(n / (d * 2^e)) to the nearest integer, ties to even, times 2^e
Nearest(n, d, e) ==
    LET u == d * (2 ^ e)
        q == n \div u
        r == n % u
        up == (2 * r > u) \/ (2 * r = u /\ q % 2 = 1)
    IN  (IF up THEN q + 1 ELSE q) * (2 ^ e)

\* the float nearest to the integer n >= 0
RoundInt(n) == Nearest(n, 1, Shift(n, 1))

\* the floats that are integers of 0..MaxCoord
Floats == { n \in 0..MaxCoord : RoundInt(n) = n }

\* math.ceil(width / cell): the float quotient, then the ceiling
CeilQuot(w, c) ==
    LET n == w * (2 ^ QuotShift)
        m == Nearest(n, c, Shift(n, c))
    IN  (m + (2 ^ QuotShift) - 1) \div (2 ^ QuotShift)

\* build_grid(bounds, cell)
build_grid(b, cell) ==
    LET minx == b[1]
        miny == b[2]
        maxx == b[3]
        maxy == b[4]
        width == RoundInt(maxx - minx)
        height == RoundInt(maxy - miny)
        gcols == CeilQuot(width, cell)
        grows == CeilQuot(height, cell)
        maxx2 == RoundInt(minx + RoundInt(gcols * cell))
        maxy2 == RoundInt(miny + RoundInt(grows * cell))
    IN  <<minx, miny, maxx2, maxy2, gcols, grows>>

BuildGrid ==
    /\ grid = <<>>
    /\ bnds # <<>>
    /\ grid' = build_grid(bnds, gcell)
    /\ UNCHANGED <<bnds, gcell, cacheVars, keyVars, guardVars, idwVars,
                   zonalVars, rowVars>>

GridIdle ==
    /\ bnds = <<>>
    /\ gcell = 1
    /\ grid = <<>>

(***************************************************************************)
(* tract_nitrate_table.main on one raster row: rasterize, zonal means      *)
(***************************************************************************)
NumCells == 2

MaxTracts == 2

\* nodata = -9999.0, the sentinel of the raster
NoData == -9999

\* a cell is CellSize units wide, its centre CellSize / 2 from its edges
CellSize == 4

\* where polygon edges lie: on cell boundaries and a quarter cell after
EdgePts == { e \in 0..(CellSize * NumCells) : e % CellSize \in {0, 1} }

\* a region polygon: the span [a, b] of the row it covers, a < b
Polygons == { g \in [a : EdgePts, b : EdgePts] : g.a < g.b }

\* the band as read: the sentinel, a non-finite value, two finite values
CellVals == { [v |-> NoData, finite |-> TRUE], [v |-> 0, finite |-> FALSE],
              [v |-> 1, finite |-> TRUE], [v |-> 2, finite |-> TRUE] }

Cells == 1..NumCells

\* the centre of cell c
Centre(c) == CellSize * c - (CellSize \div 2)

\* polygon g covers cell c at least in part or touches its edge (the
\* cells that all_touched=True would burn)
BurnsTouched(g, c) == g.a <= CellSize * c /\ g.b >= CellSize * (c - 1)

\* the rule of all_touched=False: a cell is burned when its centre lies
\* in the polygon
Burns(g, c) == g.a < Centre(c) /\ Centre(c) < g.b

\* rasterize(shapes, fill=0, all_touched=False): the shapes are burned in
\* input order, a later one over an earlier one; zone ids are 1..n
rasterize(shapes) ==
    [c \in Cells |->
        LET on == { i \in 1..Len(shapes) : Burns(shapes[i], c) }
        IN  IF on = {} THEN 0 ELSE CHOOSE i \in on : \A j \in on : j <= i]

\* valid = (zones > 0) & (nitrate != nodata) & np.isfinite(nitrate)
Valid(zs, band, c) ==
    zs[c] > 0 /\ band[c].v # NoData /\ band[c].finite

RECURSIVE BinSum(_, _, _, _)
\* np.bincount(z, weights=v)[zid] over the first c cells
BinSum(zs, band, zid, c) ==
    IF c = 0 THEN 0
    ELSE BinSum(zs, band, zid, c - 1)
            + (IF Valid(zs, band, c) /\ zs[c] = zid THEN band[c].v ELSE 0)

RECURSIVE BinCount(_, _, _, _)
\* np.bincount(z)[zid] over the first c cells
BinCount(zs, band, zid, c) ==
    IF c = 0 THEN 0
    ELSE BinCount(zs, band, zid, c - 1)
            + (IF Valid(zs, band, c) /\ zs[c] = zid THEN 1 ELSE 0)

\* means filled with 0.0 where the code fills with np.nan
ZoneMeanZeroFill(zs, band, zid) ==
    LET count == BinCount(zs, band, zid, NumCells)
    IN  IF count > 0
        THEN [missing |-> FALSE, sum |-> BinSum(zs, band, zid, NumCells),
              count |-> count]
        ELSE [missing |-> FALSE, sum |-> 0, count |-> 1]

\* means = np.full(n_zones + 1, np.nan); means[nonzero] = sums / counts:
\* the mean sum / count, or missing
ZoneMean(zs, band, zid) ==
    LET count == BinCount(zs, band, zid, NumCells)
    IN  IF count > 0
        THEN [missing |-> FALSE, sum |-> BinSum(zs, band, zid, NumCells),
              count |-> count]
        ELSE [missing |-> TRUE, sum |-> 0, count |-> 0]

\* main: zone ids, rasterize, aggregate, one row per tract with
\* means[zone_id]
TractTable ==
    /\ table = <<>>
    /\ tracts # <<>>
    /\ LET zs == rasterize(tracts) IN
        /\ zones' = zs
        /\ table' = [i \in 1..Len(tracts) |->
                        [zone_id |-> i, mean |-> ZoneMean(zs, nitrate, i)]]
    /\ UNCHANGED <<tracts, nitrate, cacheVars, keyVars, guardVars, idwVars,
                   gridVars, rowVars>>

ZonalIdle ==
    /\ tracts = <<>>
    /\ nitrate = <<>>
    /\ zones = <<>>
    /\ table = <<>>

(***************************************************************************)
(* idw_preview.main: the row-block loop                                    *)
(***************************************************************************)
MaxRows == 6

MaxBlockRows == 4

\* the rows of the raster file, and the rows past its end that a window
\* could name
RowIds == 0..(MaxRows + MaxBlockRows)

\* row0 is in range(0, nrows, block_rows)
InRange(r) == IF block_rows > 0 THEN r < nrows ELSE r > nrows

\* row1 without the min: the last block as high as the others
Row1NoMin(r) == r + block_rows

\* row1 = min(row0 + args.block_rows, nrows)
Row1(r) == IF r + block_rows < nrows THEN r + block_rows ELSE nrows

\* rasterio.open(out_path, "w") is done; range(0, nrows, block_rows) is
\* built, which raises ValueError on a step of 0
LoopStart ==
    /\ lpc = "open"
    /\ IF block_rows = 0
       THEN lpc' = "ValueError" /\ UNCHANGED row0
       ELSE lpc' = "loop" /\ row0' = 0
    /\ UNCHANGED <<nrows, block_rows, dst, cacheVars, keyVars, guardVars,
                   idwVars, gridVars, zonalVars>>

\* one pass of the loop body: the rows row0 .. row1 - 1 are computed from
\* their row indices and written to the window ((row0, row1), (0, ncols))
BlockStep ==
    /\ lpc = "loop"
    /\ InRange(row0)
    /\ LET row1 == Row1(row0)
           rr == row1 - row0
           row_idx == [i \in 1..rr |-> row0 + i - 1]
           block == [i \in 1..rr |-> row_idx[i]]
       IN  dst' = [r \in RowIds |->
                     IF row0 <= r /\ r < row1
                     THEN Append(dst[r], block[r - row0 + 1])
                     ELSE dst[r]]
    /\ row0' = row0 + block_rows
    /\ UNCHANGED <<nrows, block_rows, lpc, cacheVars, keyVars, guardVars,
                   idwVars, gridVars, zonalVars>>

\* the range is exhausted: the raster is closed
LoopEnd ==
    /\ lpc = "loop"
    /\ ~InRange(row0)
    /\ lpc' = "closed"
    /\ UNCHANGED <<nrows, block_rows, row0, dst, cacheVars, keyVars,
                   guardVars, idwVars, gridVars, zonalVars>>

RowsIdle ==
    /\ nrows = 0
    /\ block_rows = 1
    /\ row0 = 0
    /\ dst = <<>>
    /\ lpc = "none"

SideIdle == GuardIdle /\ IdwIdle /\ GridIdle /\ ZonalIdle /\ RowsIdle

(***************************************************************************)
(* The specifications                                                      *)
(***************************************************************************)
\* the key the cache specifications work on: k = 2.0, cell = 500.0, knn = 32
KeyIdle ==
    /\ tupA = [k |-> 20, cell |-> 5000, knn |-> 32]
    /\ tupB = [k |-> 20, cell |-> 5000, knn |-> 32]
    /\ encA = NoNames
    /\ encB = NoNames

\* no caller yet and no artifact of the key on disk
CacheCold ==
    /\ pc = [p \in Procs |-> "idle"]
    /\ req = [p \in Procs |-> NoCall]
    /\ lockHolder = NoProc
    /\ files = [f \in FileIds |-> Absent]
    /\ png = [m \in MaxDims |-> Absent]
    /\ tmp = [m \in MaxDims |-> "absent"]
    /\ passes = {}
    /\ err = [p \in Procs |-> "none"]
    /\ pubAtCall = [p \in Procs |-> "no"]

\* callers of the three entry points with any arguments; a raster of the
\* key may have been left at cache/idw by a run of idw_preview.py
Init ==
    /\ CacheCold
    /\ tifCached \in BOOLEAN
    /\ theCall = NoCall
    /\ KeyIdle
    /\ SideIdle

Next ==
    \E p \in Procs :
        \/ \E r \in Calls : Call(p, r)
        \/ Acquire(p)
        \/ Check(p)
        \/ IdwDone(p)
        \/ StageFail(p)
        \/ MetaOpen(p)
        \/ WriteProgress(p)
        \/ MetaClose(p)
        \/ TableDecide(p)
        \/ TableRasterMissing(p)
        \/ TableOpen(p)
        \/ TableClose(p)
        \/ RegDecide(p)
        \/ RegCsvMissing(p)
        \/ RegOpen(p)
        \/ RegClose(p)
        \/ PngDecide(p)
        \/ PngSave(p)
        \/ PngSaved(p)
        \/ PngReplace(p)

Spec == Init /\ [][Next]_vars

\* every caller calls ensure_idw_outputs with the same arguments
InitSame ==
    /\ CacheCold
    /\ tifCached = FALSE
    /\ theCall \in { r \in Calls : r.op = "ensure" }
    /\ KeyIdle
    /\ SideIdle

NextSame ==
    \E p \in Procs :
        \/ Call(p, theCall)
        \/ Acquire(p)
        \/ Check(p)
        \/ IdwDone(p)
        \/ StageFail(p)
        \/ MetaOpen(p)
        \/ WriteProgress(p)
        \/ MetaClose(p)
        \/ TableDecide(p)
        \/ TableOpen(p)
        \/ TableClose(p)
        \/ RegDecide(p)
        \/ RegOpen(p)
        \/ RegClose(p)
        \/ PngDecide(p)
        \/ PngSave(p)
        \/ PngSaved(p)
        \/ PngReplace(p)

SpecSame == InitSame /\ [][NextSame]_vars

\* the path helpers applied to two parameter tuples of the domain
InitKey ==
    /\ CacheCold
    /\ tifCached = FALSE
    /\ theCall = NoCall
    /\ tupA \in Params
    /\ tupB \in Params
    /\ encA = NoNames
    /\ encB = NoNames
    /\ SideIdle

NextKey == EncodeA \/ EncodeB

SpecKey == InitKey /\ [][NextKey]_vars

\* one request with any parameters, valid or not, at either entry point,
\* on a cache with no artifacts
InitGuard ==
    /\ CacheCold
    /\ tifCached = FALSE
    /\ theCall = NoCall
    /\ KeyIdle
    /\ vreq \in [entry : Entries, k : AnyK, cell : AnyCell, knn : AnyKnn]
    /\ vpc = "start"
    /\ vio = {}
    /\ verr = "none"
    /\ IdwIdle /\ GridIdle /\ ZonalIdle /\ RowsIdle

NextGuard ==
    \/ HandlerCheck
    \/ EnsureMkdir
    \/ EnsureLock
    \/ EnsureStartIdw
    \/ IdwValidate

SpecGuard == InitGuard /\ [][NextGuard]_vars

\* idw_block called on any samples, query point, knn and exponent
InitIdw ==
    /\ CacheCold
    /\ tifCached = FALSE
    /\ theCall = NoCall
    /\ KeyIdle
    /\ GuardIdle /\ GridIdle /\ ZonalIdle /\ RowsIdle
    /\ wells \in WellSets
    /\ qpt \in [x : Coords, y : Coords]
    /\ knnArg \in 1..MaxKnnArg
    /\ kpow \in Powers
    /\ nbrs = <<>>
    /\ pred = NoPred

NextIdw == idw_block

SpecIdw == InitIdw /\ [][NextIdw]_vars

\* build_grid called on any bounds with minx <= maxx, miny <= maxy and any
\* cell size > 0
InitGrid ==
    /\ CacheCold
    /\ tifCached = FALSE
    /\ theCall = NoCall
    /\ KeyIdle
    /\ GuardIdle /\ IdwIdle /\ ZonalIdle /\ RowsIdle
    /\ bnds \in { b \in Floats \X Floats \X Floats \X Floats :
                    b[1] <= b[3] /\ b[2] <= b[4] }
    /\ gcell \in { c \in Floats : 1 <= c /\ c <= MaxCell }
    /\ grid = <<>>

NextGrid == BuildGrid

SpecGrid == InitGrid /\ [][NextGrid]_vars

\* the table script run on any band and any one to MaxTracts polygons
InitZonal ==
    /\ CacheCold
    /\ tifCached = FALSE
    /\ theCall = NoCall
    /\ KeyIdle
    /\ GuardIdle /\ IdwIdle /\ GridIdle /\ RowsIdle
    /\ tracts \in UNION { [1..n -> Polygons] : n \in 1..MaxTracts }
    /\ nitrate \in [Cells -> CellVals]
    /\ zones = <<>>
    /\ table = <<>>

NextZonal == TractTable

SpecZonal == InitZonal /\ [][NextZonal]_vars

\* a step of caller p inside ensure_idw_outputs, after its call
EnsureStep(p) ==
    \/ Acquire(p)
    \/ Check(p)
    \/ IdwDone(p)
    \/ StageFail(p)
    \/ MetaOpen(p)
    \/ WriteProgress(p)
    \/ MetaClose(p)
    \/ TableDecide(p)
    \/ TableOpen(p)
    \/ TableClose(p)
    \/ RegDecide(p)
    \/ RegOpen(p)
    \/ RegClose(p)
    \/ PngDecide(p)
    \/ PngSave(p)
    \/ PngSaved(p)
    \/ PngReplace(p)

\* SpecSame under fair scheduling and terminating stages: a caller that
\* can take a step of its call for ever does take one (a stage ends or
\* fails, a free lock is acquired)
SpecSameFair == SpecSame /\ \A p \in Procs : WF_vars(EnsureStep(p))

\* the loop on any row count and any --block-rows, which main takes as an
\* int without a test: negative, 0 and positive
InitRows ==
    /\ CacheCold
    /\ tifCached = FALSE
    /\ theCall = NoCall
    /\ KeyIdle
    /\ GuardIdle /\ IdwIdle /\ GridIdle /\ ZonalIdle
    /\ nrows \in 0..MaxRows
    /\ block_rows \in (0 - 1)..MaxBlockRows
    /\ row0 = 0
    /\ dst = [r \in RowIds |-> <<>>]
    /\ lpc = "open"

NextRows ==
    \/ LoopStart
    \/ BlockStep
    \/ LoopEnd

SpecRows == InitRows /\ [][NextRows]_vars

TypeOK ==
    /\ pc \in [Procs -> {"idle", "lock", "check", "idw", "meta", "meta_w",
                         "table", "table_run", "table_w", "reg", "reg_run",
                         "reg_w", "png", "png_w", "png_replace", "done",
                         "failed"}]
    /\ \A p \in Procs : req[p] \in Calls \cup {NoCall}
    /\ lockHolder \in Procs \cup {NoProc}
    /\ \A f \in FileIds : files[f].st \in {"absent", "empty", "trunc", "full"}
    /\ \A m \in MaxDims : png[m].st \in {"absent", "full"}
    /\ \A m \in MaxDims : tmp[m] \in {"absent", "partial", "full"}
    /\ passes \subseteq Procs
    /\ pubAtCall \in [Procs -> {"no", "ensure", "run_table", "run_regression"}]

(***************************************************************************)
(* Properties                                                              *)
(***************************************************************************)
\* the metadata and every artifact call r asks for are complete and were
\* written by the pass of caller g
RequestedBy(r, g) ==
    /\ files["meta"] = [st |-> "full", by |-> g]
    /\ (r.want_png => png[r.max_dim] = [st |-> "full", by |-> g])
    /\ (r.want_table => files["csv"] = [st |-> "full", by |-> g])
    /\ (r.want_reg => files["reg"] = [st |-> "full", by |-> g])

C2_AtomicPublish ==
    /\ \A f \in FileIds : files[f].st \in {"absent", "full"}
    /\ \A m \in MaxDims : png[m].st \in {"absent", "full"}

\* C3: at most one caller is generating for the key at any time, and a
\* caller that runs a stage holds the lock of the key.
C3_OneGeneration ==
    /\ Cardinality({p \in Procs : pc[p] \in StagePcs}) <= 1
    /\ \A p \in Procs : pc[p] \in StagePcs => lockHolder = p

\* C4: a call of ensure_idw_outputs made when all it requests is published
\* never holds the lock and never waits for a holder of the lock.
C4_FastPathLockFree ==
    \A p \in Procs :
        pubAtCall[p] = "ensure" =>
            /\ lockHolder # p
            /\ ~(pc[p] = "lock" /\ lockHolder # NoProc)

\* the four artifact kinds of the key are published, the preview at some
\* size
KeyPublished ==
    /\ \A f \in FileIds : files[f].st = "full"
    /\ \E m \in MaxDims : png[m].st = "full"

C6_AppendOnly ==
    [][ /\ \A f \in FileIds : files[f].st = "full" => files'[f] = files[f]
        /\ \A m \in MaxDims : png[m].st = "full" => png'[m] = png[m] ]_vars

\* C7: a generation pass that failed left none of the files it wrote at a
\* final path in a partial state.
C7_FailureLeavesNoPartial ==
    \A p \in passes :
        pc[p] = "failed" =>
            \A f \in FileIds :
                files[f].by = p => files[f].st \notin {"empty", "trunc"}

\* C8: a failed generation pass leaves nothing of its own at a final path,
\* and the existence test lets no call return while an artifact it requests
\* is not completely published.
C8_FailedPassRetried ==
    \A p \in Procs :
        /\ (p \in passes /\ pc[p] = "failed") =>
              /\ \A f \in FileIds : files[f].by # p
              /\ \A m \in MaxDims : png[m].by # p
        /\ (pc[p] = "check" /\ FastPath(req[p])) => Published(req[p])

\* C9: two parameter tuples of the domain that differ in k, cell or knn
\* have different file names for every artifact kind and the lock.
C9_KeyInjective ==
    (encA # NoNames /\ encB # NoNames /\ tupA # tupB) =>
        \A f \in PathKinds : encA[f] # encB[f]

\* the stage a position of ensure_idw_outputs belongs to, in the order
\* raster, metadata, region table, summary, preview
StageRank(q) ==
    CASE q \in {"idle", "lock", "check"} -> 0
      [] q = "idw" -> 1
      [] q \in {"meta", "meta_w"} -> 2
      [] q \in {"table", "table_run", "table_w"} -> 3
      [] q \in {"reg", "reg_run", "reg_w"} -> 4
      [] q \in {"png", "png_w", "png_replace"} -> 5
      [] OTHER -> 6

\* C10: a generation pass never goes back to an earlier stage (raster,
\* region table, summary, with the preview after the raster); its summary
\* stage runs only while the region table file exists; and a pass that
\* wants the summary while the region table file is missing raises the
\* missing-table error and leaves the summary file as it was.
C10_DependencyOrder ==
    [][ \A p \in passes' :
          /\ StageRank(pc'[p]) >= StageRank(pc[p])
          /\ pc'[p] \in {"reg_run", "reg_w"} => Exists(files'["csv"])
          /\ (/\ pc[p] = "reg"
              /\ pc'[p] # "reg"
              /\ req[p].want_reg
              /\ ~Exists(files["csv"])) =>
                 /\ pc'[p] = "failed"
                 /\ err'[p] = "missing_csv"
                 /\ files'["reg"] = files["reg"] ]_vars

\* a pass has raised the missing-table error, with no summary written
C10_MissingTableRaised ==
    \E p \in passes :
        /\ pc[p] = "failed"
        /\ err[p] = "missing_csv"
        /\ files["meta"].st = "full"
        /\ files["reg"].st = "absent"

\* C11: a call of ensure_idw_outputs that returns normally, from the
\* existence test or at the end of a generation pass, leaves the metadata
\* file and every artifact it requested present and non-empty at their
\* final paths.
C11_ReturnedNonEmpty ==
    [][ \A p \in Procs :
          (req[p].op = "ensure" /\ pc[p] # "done" /\ pc'[p] = "done") =>
              /\ files'["meta"].st \in {"trunc", "full"}
              /\ (req[p].want_png =>
                    png'[req[p].max_dim].st \in {"trunc", "full"})
              /\ (req[p].want_table =>
                    files'["csv"].st \in {"trunc", "full"})
              /\ (req[p].want_reg =>
                    files'["reg"].st \in {"trunc", "full"}) ]_vars

\* C12: the raster of the key is produced at most once (a pass whose IDW
\* stage has just ended finds no metadata written by an earlier pass), and
\* the IDW stage runs only in a pass in which the region table or the
\* preview is both requested and missing.
C12_RasterOnce ==
    \A p \in Procs :
        /\ pc[p] = "meta" => files["meta"].by = NoProc
        /\ pc[p] = "idw" =>
              \/ (req[p].want_table /\ MissingOrEmpty(files["csv"]))
              \/ (req[p].want_png /\ ~Exists(png[req[p].max_dim]))

\* C13: a request with an invalid parameter tuple (k <= 1, cell <= 0 or
\* knn < 1) creates no directory, no lock file and no artifact and starts
\* no stage, and when it is over it has surfaced a precondition error (the
\* 4xx condition) to its caller.
C13_RejectedBeforeIO ==
    ~ValidParams(vreq) =>
        /\ vio = {}
        /\ vpc \notin {"passed_on", "generating"}
        /\ vpc \in {"returned", "raised"} => verr = "http_400"

\* C14: for a query point whose neighbour list holds a sample at distance
\* 0 (knn at most the number of samples), the prediction is the value of
\* the sample with the lowest index among the listed samples at distance
\* 0, never a blend.
C14_ExactHitLowestIndex ==
    (pred # NoPred /\ knnArg <= Len(wells)
        /\ \E i \in 1..knnArg : Dist2(nbrs[i]) = 0) =>
        LET hits == { nbrs[i] : i \in { j \in 1..knnArg :
                                          Dist2(nbrs[j]) = 0 } }
            low == CHOOSE w \in hits : \A u \in hits : w <= u
        IN  pred = [kind |-> "hit", num |-> wells[low].v, den |-> 1]

\* C15: with knn greater than or equal to the number N of samples,
\* idw_block completes without error and its neighbour list is exactly
\* the N samples.
C15_ClampToN ==
    (pred # NoPred /\ knnArg >= Len(wells)) =>
        /\ pred.kind # "IndexError"
        /\ { nbrs[i] : i \in 1..Len(nbrs) } = 1..Len(wells)

\* C16: build_grid returns cols = ceil(width / cell) and rows =
\* ceil(height / cell) (the least counts whose cells span the width and the
\* height), the returned grid covers the requested extent, and the
\* expanded maxx and miny are within one cell size of the requested ones.
C16_GridCoversExtent ==
    grid # <<>> =>
        LET width == bnds[3] - bnds[1]
            height == bnds[4] - bnds[2]
        IN  /\ grid[5] * gcell >= width /\ (grid[5] - 1) * gcell < width
            /\ grid[6] * gcell >= height /\ (grid[6] - 1) * gcell < height
            /\ grid[1] <= bnds[1] /\ grid[2] <= bnds[2]
            /\ grid[3] >= bnds[3] /\ grid[4] >= bnds[4]
            /\ grid[3] - bnds[3] <= gcell
            /\ bnds[2] - grid[2] <= gcell

\* the cells counted for region zid: assigned to it, not the sentinel,
\* finite
ValidCells(zid) ==
    { c \in Cells :
        zones[c] = zid /\ nitrate[c].v # NoData /\ nitrate[c].finite }

RECURSIVE SumOver(_)
\* the sum of the band over a set of cells
SumOver(cs) ==
    IF cs = {} THEN 0
    ELSE LET c == CHOOSE x \in cs : TRUE
         IN  nitrate[c].v + SumOver(cs \ {c})

\* C17: the region table has exactly one row per input region, in input
\* order; the mean of a region with valid cells is the sum of its valid
\* cells divided by their count, and the mean of a region with no valid
\* cell is missing, never a number.
C17_OneRowPerRegion ==
    table # <<>> =>
        /\ Len(table) = Len(tracts)
        /\ \A i \in 1..Len(tracts) :
            /\ table[i].zone_id = i
            /\ IF ValidCells(i) # {}
               THEN table[i].mean =
                        [missing |-> FALSE, sum |-> SumOver(ValidCells(i)),
                         count |-> Cardinality(ValidCells(i))]
               ELSE table[i].mean.missing

\* a table with a region that has valid cells, a region whose cells are
\* all sentinel or non-finite, or which covers no cell centre
C17_MissingAndMean ==
    /\ table # <<>>
    /\ \E i \in 1..Len(tracts) : Cardinality(ValidCells(i)) > 1
    /\ \E i \in 1..Len(tracts) :
          /\ table[i].mean.missing
          /\ \A c \in Cells : zones[c] # i

\* C18: every cell that a region polygon covers in part or touches at its
\* edge is assigned to one of the regions touching it, and a cell that no
\* polygon touches stays unassigned.
C18_TouchedCellsIncluded ==
    zones # <<>> =>
        \A c \in Cells :
            LET touching == { i \in 1..Len(tracts) :
                                BurnsTouched(tracts[i], c) }
            IN  IF touching = {} THEN zones[c] = 0
                ELSE zones[c] \in touching

\* C19: a caller that has left ensure_idw_outputs, by return or by
\* exception, does not hold the lock of the key, and under fair scheduling
\* every caller that waits for the lock eventually returns or fails.
C19_LockReleased ==
    /\ [](\A p \in Procs : pc[p] \in {"done", "failed"} => lockHolder # p)
    /\ \A p \in Procs : (pc[p] = "lock") ~> (pc[p] \in {"done", "failed"})

\* a caller holds the lock after the generation pass of another caller
\* failed
C19_AcquiredAfterFailure ==
    \E p, q \in Procs :
        /\ p \in passes
        /\ pc[p] = "failed"
        /\ lockHolder = q
        /\ pc[q] = "check"

\* what C20 asks of a step of the loop: no exception; a pass of the loop
\* moves row0 forward and writes at most block_rows rows; and when the
\* loop has ended every row of [0, nrows) was written once, with the row
\* computed for it, and no other row, whatever the block height
EachRowOnce ==
    /\ lpc' # "ValueError"
    /\ (lpc = "loop" /\ lpc' = "loop") =>
          /\ row0' > row0
          /\ Cardinality({ r \in RowIds : dst'[r] # dst[r] }) <= block_rows
    /\ lpc' = "closed" =>
          \A r \in RowIds : dst'[r] = IF r < nrows THEN <<r>> ELSE <<>>

\* C20 as stated: for every row count nrows >= 0 and every block height
\* that can be configured, the row-block loop ends with each row of
\* [0, nrows) computed and written exactly once, in blocks of at most
\* block_rows rows.
C20_AnyBlockHeight == [][EachRowOnce]_vars

\* C20 as amended: the same for every block height of at least one row.
C20_PositiveBlockHeight == [][block_rows >= 1 => EachRowOnce]_vars

\* the loop has ended after several blocks, the last one shorter
C20_EndedWithShortBlock ==
    /\ lpc = "closed"
    /\ block_rows > 1
    /\ nrows > block_rows
    /\ nrows % block_rows # 0

====
